---- MODULE Spec2Model ----
(***************************************************************************)
(* Mini Event Management System API: the Events and Attendees tables, the  *)
(* create_event handler with its schema validation, and the two attendee   *)
(* operations (register_attendee, get_attendees_for_event), each split at  *)
(* its awaits: every `await db.execute(...)` / `await db.commit()` is one   *)
(* atomic step against the shared store, and other requests may run        *)
(* between two steps of the same request.                                  *)
(*                                                                         *)
(* GET /events (read_events) awaits once, so it is a single step; the clock *)
(* `now` is what datetime.now(pytz.utc) returns.                           *)
(*                                                                         *)
(* Time is counted in units of 5h30.  A datetime is [wall, off, aware]:    *)
(* wall clock reading, UTC offset of its tzinfo, whether it has a tzinfo;  *)
(* the instant it denotes is wall - off.                                   *)
(* Event.name and Event.location are opaque strings that no operation      *)
(* reads; they are left out of the Event rows.                             *)
(***************************************************************************)
EXTENDS Integers, Sequences, FiniteSets, TLC

VARIABLES events, attendees, reqs, lst, cresp, now, eresp

vars == <<events, attendees, reqs, lst, cresp, now, eresp>>

---------------------------------------------------------------------------
(* Bounds of the model *)

\* rows of the Events table
MaxEvents == 1
\* register_attendee requests of a run, one at a time
MaxReqs == 3
\* register_attendee requests of a run in which requests overlap
MaxRacers == 2
\* register_attendee requests of a run that also lists attendees
MaxListed == 2
\* rows of the Events table in a run that lists events
MaxShown == 3
\* register_attendee requests of a run in which at most MaxRacers overlap
MaxSurge == 3

Emails == {"a@x.com", "b@x.com", "c@x.com"}
Capacities == {-1, 0, 1, 2}
Walls == {0, 1}
Pages == {-1, 1, 2, 3}
Sizes == {0, 1, 2}

\* event ids a request may name: those of the table and one beyond it
EventIds == 1..(MaxEvents + 1)

(* Program constants *)

\* UTC offset of pytz.timezone('Asia/Kolkata'), of pytz.utc
IST_OFFSET == 1
UTC_OFFSET == 0
\* defaults of get_attendees_for_event
DEFAULT_PAGE == 1
DEFAULT_SIZE == 10

Offsets == {UTC_OFFSET, IST_OFFSET}

---------------------------------------------------------------------------
(* datetime *)

\* a datetime with a tzinfo of fixed offset o / with tzinfo None
Aware(w, o) == [wall |-> w, off |-> o, aware |-> TRUE]
Naive(w) == [wall |-> w, off |-> 0, aware |-> FALSE]

\* the instant an aware datetime denotes
Instant(dt) == dt.wall - dt.off

\* datetime.astimezone(tz): same instant, wall clock of the target offset
AsTimezone(dt, o) == Aware(Instant(dt) + o, o)

\* schemas.EventBase.ensure_timezone_awareness: a naive value is localized
\* to Asia/Kolkata, an aware one is kept
ensure_timezone_awareness(v) ==
    IF ~v.aware THEN Aware(v.wall, IST_OFFSET) ELSE v

\* variant: the wall clock readings are compared, the offsets ignored
WallClockLE(a, b) == a.wall <= b.wall

\* aware datetimes order by the instant they denote
DatetimeLE(a, b) == Instant(a) <= Instant(b)

\* schemas.EventBase.end_time_must_be_after_start_time: TRUE when it raises
end_time_must_be_after_start_time(v, start) == DatetimeLE(v, start)

\* pydantic validation of an EventCreate body: TRUE when the body is accepted
EventCreateValid(data) ==
    LET s == ensure_timezone_awareness(data.start_time)
        e == ensure_timezone_awareness(data.end_time)
    IN  ~end_time_must_be_after_start_time(e, s)

---------------------------------------------------------------------------
(* The store *)

NoneRow == [id |-> 0]

\* variant: the WHERE clause is missing, the first Event row is returned
EventByIdUnfiltered(event_id) ==
    IF events # <<>> THEN events[1] ELSE NoneRow

\* select(Event).where(Event.id == event_id) ... .first()
EventById(event_id) ==
    IF event_id \in 1..Len(events) THEN events[event_id] ELSE NoneRow

\* select(Attendee).where(Attendee.event_id == event_id).order_by(Attendee.id)
AttendeesOf(event_id) ==
    LET P(r) == r.event_id = event_id IN SelectSeq(attendees, P)

\* variant: the count is not restricted to the event
AttendeeCountAllEvents(event_id) == Len(attendees)

\* select(func.count(Attendee.id)).where(Attendee.event_id == event_id)
AttendeeCount(event_id) == Len(AttendeesOf(event_id))

\* variant: the email is compared with the wrong column
FindAttendeeWrongColumn(event_id, email) ==
    LET P(r) == r.event_id = event_id /\ r.name = email
        found == SelectSeq(attendees, P)
    IN  IF found = <<>> THEN NoneRow ELSE Head(found)

\* select(Attendee).where(event_id == .., email == ..) ... .first()
FindAttendee(event_id, email) ==
    LET P(r) == r.event_id = event_id /\ r.email = email
        found == SelectSeq(attendees, P)
    IN  IF found = <<>> THEN NoneRow ELSE Head(found)

\* variant: the table has no UNIQUE constraint
NoUniqueConstraint(event_id, email) == FALSE

\* UniqueConstraint('email', 'event_id'): TRUE when the insert is rejected
UniqueViolation(event_id, email) ==
    \E i \in 1..Len(attendees) :
        attendees[i].event_id = event_id /\ attendees[i].email = email

---------------------------------------------------------------------------
(* Responses *)

HTTP_201_CREATED == 201
HTTP_400_BAD_REQUEST == 400
HTTP_404_NOT_FOUND == 404
HTTP_422_UNPROCESSABLE_ENTITY == 422

Pending == [status |-> 0, detail |-> "", id |-> 0]
Created(id) == [status |-> HTTP_201_CREATED, detail |-> "", id |-> id]
HTTPException(code, detail) == [status |-> code, detail |-> detail, id |-> 0]

NotFound == HTTPException(HTTP_404_NOT_FOUND, "Event not found")
CapacityExceeded ==
    HTTPException(HTTP_400_BAD_REQUEST, "Event is at full capacity")
DuplicateRegistration ==
    HTTPException(HTTP_400_BAD_REQUEST,
                  "Attendee with this email already registered for this event")
ValidationFailed ==
    HTTPException(HTTP_422_UNPROCESSABLE_ENTITY, "End time must be after start time")
\* sqlalchemy.exc.IntegrityError, which no handler catches: the request ends
\* with the server's response to an unhandled exception
UnhandledIntegrityError == HTTPException(500, "IntegrityError")

---------------------------------------------------------------------------
(* POST /events *)

\* variant: the primary key is not generated, every row gets id 1
EventRowSameId(id, data) ==
    [id |-> 1,
     start_time |-> AsTimezone(ensure_timezone_awareness(data.start_time), UTC_OFFSET),
     end_time |-> AsTimezone(ensure_timezone_awareness(data.end_time), UTC_OFFSET),
     max_capacity |-> data.max_capacity]

EventRow(id, data) ==
    [id |-> id,
     start_time |-> AsTimezone(ensure_timezone_awareness(data.start_time), UTC_OFFSET),
     end_time |-> AsTimezone(ensure_timezone_awareness(data.end_time), UTC_OFFSET),
     max_capacity |-> data.max_capacity]

\* routers.events.create_event: body validation, then EventService.create_event;
\* max bounds the rows of the run
CreateEventUpTo(max, data) ==
    /\ IF EventCreateValid(data)
       THEN /\ Len(events) < max
            /\ events' = Append(events, EventRow(Len(events) + 1, data))
            /\ cresp' = [data |-> data, result |-> Created(Len(events) + 1)]
       ELSE /\ cresp' = [data |-> data, result |-> ValidationFailed]
            /\ UNCHANGED events
    /\ UNCHANGED <<attendees, reqs, lst, now, eresp>>

CreateEvent(data) == CreateEventUpTo(MaxEvents, data)

---------------------------------------------------------------------------
(* POST /events/{event_id}/register: AttendeeService.register_attendee *)

SetReq(i, pc, result) ==
    reqs' = [reqs EXCEPT ![i].pc = pc, ![i].result = result]

\* lines 11-16: the request arrives and reads the event
StartRegister(max, event_id, attendee_data) ==
    /\ Len(reqs) < max
    /\ LET event == EventById(event_id)
           found == event # NoneRow
       IN  reqs' = Append(reqs,
                [pc |-> IF found THEN "count" ELSE "done",
                 event_id |-> event_id,
                 name |-> attendee_data.name, email |-> attendee_data.email,
                 event |-> event,
                 result |-> IF found THEN Pending ELSE NotFound])
    /\ UNCHANGED <<events, attendees, lst, cresp, now, eresp>>

\* variant: the capacity check is missing
CapacityUnchecked(count, event) == FALSE

\* variant: the comparison is strict
AtFullCapacityOffByOne(count, event) == count > event.max_capacity

\* current_attendee_count >= event.max_capacity
AtFullCapacity(count, event) == count >= event.max_capacity

\* variant: the row is added before the capacity is checked, and a failed
\* check leaves it in the table
CheckCapacityAfterWrite(i) ==
    /\ reqs[i].pc = "count"
    /\ IF AtFullCapacity(AttendeeCount(reqs[i].event_id), reqs[i].event)
       THEN /\ attendees' = Append(attendees,
                    [id |-> Len(attendees) + 1, name |-> reqs[i].name,
                     email |-> reqs[i].email, event_id |-> reqs[i].event_id])
            /\ SetReq(i, "done", CapacityExceeded)
       ELSE /\ SetReq(i, "dup", Pending)
            /\ UNCHANGED attendees
    /\ UNCHANGED <<events, lst, cresp, now, eresp>>

\* lines 19-24: read the attendee count, compare with event.max_capacity
CheckCapacity(i) ==
    /\ reqs[i].pc = "count"
    /\ IF AtFullCapacity(AttendeeCount(reqs[i].event_id), reqs[i].event)
       THEN SetReq(i, "done", CapacityExceeded)
       ELSE SetReq(i, "dup", Pending)
    /\ UNCHANGED <<events, attendees, lst, cresp, now, eresp>>

\* lines 27-32: look for an attendee with the same event_id and email
CheckDuplicate(i) ==
    /\ reqs[i].pc = "dup"
    /\ IF FindAttendee(reqs[i].event_id, reqs[i].email) # NoneRow
       THEN SetReq(i, "done", DuplicateRegistration)
       ELSE SetReq(i, "insert", Pending)
    /\ UNCHANGED <<events, attendees, lst, cresp, now, eresp>>

\* lines 34-42: db.add, commit (the INSERT, checked by the UNIQUE constraint,
\* raises IntegrityError when rejected), refresh, return
InsertAttendee(i) ==
    /\ reqs[i].pc = "insert"
    /\ IF UniqueViolation(reqs[i].event_id, reqs[i].email)
       THEN /\ SetReq(i, "done", UnhandledIntegrityError)
            /\ UNCHANGED attendees
       ELSE /\ attendees' = Append(attendees,
                    [id |-> Len(attendees) + 1, name |-> reqs[i].name,
                     email |-> reqs[i].email, event_id |-> reqs[i].event_id])
            /\ SetReq(i, "done", Created(Len(attendees) + 1))
    /\ UNCHANGED <<events, lst, cresp, now, eresp>>

---------------------------------------------------------------------------
(* GET /events/{event_id}/attendees: AttendeeService.get_attendees_for_event *)

NoPage ==
    [status |-> 0, detail |-> "", total |-> 0, page |-> 0, size |-> 0,
     pages |-> 0, items |-> <<>>]

NoListing ==
    [pc |-> "idle", event_id |-> 0, in_page |-> 0, in_size |-> 0,
     page |-> 0, size |-> 0, total |-> 0, resp |-> NoPage]

\* variant: a size below 1 becomes 1
ClampSizeToOne(size) == IF size < 1 THEN 1 ELSE size

\* lines 47-50
ClampPage(page) == IF page < 1 THEN DEFAULT_PAGE ELSE page
ClampSize(size) == IF size < 1 THEN DEFAULT_SIZE ELSE size

\* variant: pages are counted from 0
OffsetFromPage(page, size) == page * size

\* line 52
Offset(page, size) == (page - 1) * size

\* .offset(offset).limit(size) of rows already in their ORDER BY order
OffsetLimit(rows, offset, size) ==
    SubSeq(rows, offset + 1,
           IF offset + size < Len(rows) THEN offset + size ELSE Len(rows))

\* lines 67-75: the page `page` of event_id's attendees in the current store
PageItems(event_id, page, size) ==
    OffsetLimit(AttendeesOf(event_id), Offset(page, size), size)

\* variant: the division rounds down
TotalPagesFloor(total, size) == total \div size

\* line 77
TotalPages(total, size) == (total + size - 1) \div size

\* lines 47-59: the request arrives, clamps its inputs and reads the event
StartList(event_id, page, size) ==
    /\ lst.pc = "idle"
    /\ LET found == EventById(event_id) # NoneRow
       IN  lst' = [pc |-> IF found THEN "count" ELSE "done",
                   event_id |-> event_id, in_page |-> page, in_size |-> size,
                   page |-> ClampPage(page), size |-> ClampSize(size),
                   total |-> 0,
                   resp |-> IF found THEN NoPage
                            ELSE [NoPage EXCEPT !.status = NotFound.status,
                                                !.detail = NotFound.detail]]
    /\ UNCHANGED <<events, attendees, reqs, cresp, now, eresp>>

\* lines 62-64: read the total count
ListCount ==
    /\ lst.pc = "count"
    /\ lst' = [lst EXCEPT !.pc = "page", !.total = AttendeeCount(lst.event_id)]
    /\ UNCHANGED <<events, attendees, reqs, cresp, now, eresp>>

\* lines 67-85: read the page, compute total_pages, respond
ListPage ==
    /\ lst.pc = "page"
    /\ lst' = [lst EXCEPT
                !.pc = "done",
                !.resp = [status |-> 200, detail |-> "",
                          total |-> lst.total, page |-> lst.page,
                          size |-> lst.size,
                          pages |-> TotalPages(lst.total, lst.size),
                          items |-> PageItems(lst.event_id, lst.page,
                                              lst.size)]]
    /\ UNCHANGED <<events, attendees, reqs, cresp, now, eresp>>

\* the response is sent and the request's session is closed
EndList ==
    /\ lst.pc = "done"
    /\ lst' = NoListing
    /\ UNCHANGED <<events, attendees, reqs, cresp, now, eresp>>

---------------------------------------------------------------------------
(* GET /events: routers.events.read_events, EventService.get_events *)

\* ticks of the clock in a run
MaxClock == 1

\* the X-Timezone header of a request: <<>> when absent, <<name>> when sent
XTimezoneHeaders ==
    {<<>>, <<"UTC">>, <<"Asia/Kolkata">>, <<"Invalid/Timezone">>}
Skips == {0, 1}
Limits == {0, 1, 2}

\* x_timezone: Optional[str] = Header(default="UTC")
HeaderValue(h) == IF h = <<>> THEN "UTC" ELSE h[1]

\* variant: the header is not validated, every name is taken as a zone
EveryName == {HeaderValue(h) : h \in XTimezoneHeaders}

\* pytz.timezone(name): the zones of the model; any other name raises
\* UnknownTimeZoneError
KnownZones == {"UTC", "Asia/Kolkata"}
ZoneOffset(name) == IF name = "Asia/Kolkata" THEN IST_OFFSET ELSE UTC_OFFSET

\* the deployment: the database of DATABASE_URL and the UTC offset of the
\* server's local zone
Backends == {"sqlite", "postgresql"}
LocalOffsets == Offsets

\* variant: every backend returns the tzinfo it was given
LoadDatetimeKeepsZone(dt, backend) == dt

\* a DateTime(timezone=True) column read back: SQLite has no zone in its
\* storage format and returns the wall clock reading without tzinfo
LoadDatetime(dt, backend) ==
    IF backend = "sqlite" THEN Naive(dt.wall) ELSE dt

\* datetime.astimezone(tz) as read_events calls it: a naive value is taken
\* to be in the server's local zone
AsTimezoneFrom(dt, local, o) ==
    IF dt.aware THEN AsTimezone(dt, o) ELSE AsTimezone(Aware(dt.wall, local), o)

\* variant: an event that ends exactly now still counts as upcoming
EndsAtOrAfter(row, t) == Instant(row.end_time) >= t

\* Event.end_time > now_utc
EndsAfter(row, t) == Instant(row.end_time) > t

\* the rows the WHERE clause of get_events keeps
Upcoming(t) == {events[k] : k \in {j \in 1..Len(events) : EndsAfter(events[j], t)}}

\* ORDER BY Event.start_time: every order of the rows by ascending
\* start_time; the order of rows with equal start_time is the database's
RECURSIVE SortedOrders(_)
SortedOrders(S) ==
    IF S = {} THEN {<<>>}
    ELSE UNION {{<<m>> \o t : t \in SortedOrders(S \ {m})} :
                    m \in {r \in S : \A q \in S :
                            Instant(r.start_time) <= Instant(q.start_time)}}

\* one entry of the response: the row with its times in the target zone
EventResponse(row, tz, backend, local) ==
    [id |-> row.id,
     start_time |-> AsTimezoneFrom(LoadDatetime(row.start_time, backend), local, tz),
     end_time |-> AsTimezoneFrom(LoadDatetime(row.end_time, backend), local, tz),
     max_capacity |-> row.max_capacity]

NoEvents ==
    [pc |-> "idle", header |-> <<>>, skip |-> 0, limit |-> 0,
     backend |-> "sqlite", local |-> 0, status |-> 0, detail |-> "",
     items |-> <<>>]

InvalidTimezone ==
    HTTPException(HTTP_400_BAD_REQUEST, "Invalid X-Timezone header value.")

\* read_events: the header is resolved first, then the upcoming events are
\* selected at the current time and converted to the target zone
ReadEvents(h, skip, limit, backend, local) ==
    /\ eresp.pc = "idle"
    /\ IF HeaderValue(h) \notin KnownZones
       THEN eresp' = [pc |-> "done", header |-> h, skip |-> skip,
                      limit |-> limit, backend |-> backend, local |-> local,
                      status |-> InvalidTimezone.status,
                      detail |-> InvalidTimezone.detail, items |-> <<>>]
       ELSE \E order \in SortedOrders(Upcoming(now)) :
              LET page == OffsetLimit(order, skip, limit)
                  tz == ZoneOffset(HeaderValue(h))
              IN  eresp' = [pc |-> "done", header |-> h, skip |-> skip,
                            limit |-> limit, backend |-> backend,
                            local |-> local, status |-> 200, detail |-> "",
                            items |-> [k \in 1..Len(page) |->
                                EventResponse(page[k], tz, backend, local)]]
    /\ UNCHANGED <<events, attendees, reqs, lst, cresp, now>>

\* the response has been sent
EndRead ==
    /\ eresp.pc = "done"
    /\ eresp' = NoEvents
    /\ UNCHANGED <<events, attendees, reqs, lst, cresp, now>>

\* time passes
Tick ==
    /\ now < MaxClock
    /\ now' = now + 1
    /\ UNCHANGED <<events, attendees, reqs, lst, cresp, eresp>>

---------------------------------------------------------------------------
(* Specifications *)

NoCreate == [data |-> [start_time |-> Aware(0, 0), end_time |-> Aware(0, 0),
                       max_capacity |-> 0],
             result |-> Pending]

Init ==
    /\ events = <<>>
    /\ attendees = <<>>
    /\ reqs = <<>>
    /\ lst = NoListing
    /\ cresp = NoCreate
    /\ now = 0
    /\ eresp = NoEvents

\* bodies of POST /events: every timestamp of the bounds, every capacity
Datetimes ==
    {Aware(w, o) : w \in Walls, o \in Offsets} \cup {Naive(w) : w \in Walls}

EventInputs ==
    [start_time : Datetimes, end_time : Datetimes, max_capacity : Capacities]

\* a body with a fixed valid time window
PlainEvent(cap) ==
    [start_time |-> Aware(0, UTC_OFFSET), end_time |-> Aware(1, UTC_OFFSET),
     max_capacity |-> cap]

\* bodies of POST /events/{event_id}/register
AttendeeCreate(name, email) == [name |-> name, email |-> email]

\* requests overlap: any request in flight may take the next step
RaceCapacities == {1, 2}
RaceBodies ==
    {AttendeeCreate("n1", "a@x.com"), AttendeeCreate("n1", "b@x.com"),
     AttendeeCreate("n2", "a@x.com")}

Next ==
    \/ \E cap \in RaceCapacities : CreateEvent(PlainEvent(cap))
    \/ \E e \in EventIds, body \in RaceBodies :
            StartRegister(MaxRacers, e, body)
    \/ \E i \in 1..Len(reqs) : CheckCapacity(i)
    \/ \E i \in 1..Len(reqs) : CheckDuplicate(i)
    \/ \E i \in 1..Len(reqs) : InsertAttendee(i)

Spec == Init /\ [][Next]_vars

\* one request at a time: a request arrives only when none is in flight
Quiet ==
    /\ \A i \in 1..Len(reqs) : reqs[i].pc = "done"
    /\ lst.pc = "idle"

SeqCapacities == {1, 2}
SeqBodies ==
    {AttendeeCreate("n1", m) : m \in Emails}
        \cup {AttendeeCreate("n2", "a@x.com")}

SeqNext ==
    \/ \E cap \in SeqCapacities : Quiet /\ CreateEvent(PlainEvent(cap))
    \/ \E e \in EventIds, body \in SeqBodies :
            Quiet /\ StartRegister(MaxReqs, e, body)
    \/ \E i \in 1..Len(reqs) : CheckCapacity(i)
    \/ \E i \in 1..Len(reqs) : CheckDuplicate(i)
    \/ \E i \in 1..Len(reqs) : InsertAttendee(i)

SeqSpec == Init /\ [][SeqNext]_vars

\* one request at a time, registrations and listings
ListCapacities == {3}
ListBodies == {AttendeeCreate("n1", m) : m \in Emails}

ListNext ==
    \/ \E cap \in ListCapacities : Quiet /\ CreateEvent(PlainEvent(cap))
    \/ \E e \in EventIds, body \in ListBodies :
            Quiet /\ StartRegister(MaxListed, e, body)
    \/ \E i \in 1..Len(reqs) : CheckCapacity(i)
    \/ \E i \in 1..Len(reqs) : CheckDuplicate(i)
    \/ \E i \in 1..Len(reqs) : InsertAttendee(i)
    \/ \E e \in EventIds, p \in Pages, z \in Sizes : Quiet /\ StartList(e, p, z)
    \/ ListCount
    \/ ListPage
    \/ EndList

ListSpec == Init /\ [][ListNext]_vars

\* POST /events alone, with every body of the bounds
EventNext == \E data \in EventInputs : CreateEvent(data)

EventSpec == Init /\ [][EventNext]_vars

\* POST /events and GET /events, one request at a time, while time passes
ClockBodies ==
    {[start_time |-> Aware(ws, os), end_time |-> Aware(we, oe),
      max_capacity |-> 1] : ws \in Walls, os \in Offsets,
                            we \in Walls, oe \in Offsets}

ClockNext ==
    \/ \E data \in ClockBodies :
            eresp.pc = "idle" /\ CreateEventUpTo(MaxShown, data)
    \/ \E h \in XTimezoneHeaders, skip \in Skips, limit \in Limits,
          backend \in Backends, local \in LocalOffsets :
            ReadEvents(h, skip, limit, backend, local)
    \/ EndRead
    \/ eresp.pc = "idle" /\ Tick

ClockSpec == Init /\ [][ClockNext]_vars

\* at most MaxRacers requests overlap at any time, more arrive over the run
InFlight == {i \in 1..Len(reqs) : reqs[i].pc # "done"}

SurgeCapacities == {1}
SurgeBodies == {AttendeeCreate("n1", m) : m \in Emails}

SurgeNext ==
    \/ \E cap \in SurgeCapacities : CreateEvent(PlainEvent(cap))
    \/ \E e \in EventIds, body \in SurgeBodies :
            Cardinality(InFlight) < MaxRacers /\ StartRegister(MaxSurge, e, body)
    \/ \E i \in 1..Len(reqs) : CheckCapacity(i)
    \/ \E i \in 1..Len(reqs) : CheckDuplicate(i)
    \/ \E i \in 1..Len(reqs) : InsertAttendee(i)

SurgeSpec == Init /\ [][SurgeNext]_vars

\* two events, overlapping registrations for either of them
PairCapacities == {1}
PairBodies == {AttendeeCreate("n1", "a@x.com"), AttendeeCreate("n1", "b@x.com")}

PairNext ==
    \/ \E cap \in PairCapacities :
            CreateEventUpTo(MaxEvents + 1, PlainEvent(cap))
    \/ \E e \in EventIds, body \in PairBodies :
            StartRegister(MaxRacers, e, body)
    \/ \E i \in 1..Len(reqs) : CheckCapacity(i)
    \/ \E i \in 1..Len(reqs) : CheckDuplicate(i)
    \/ \E i \in 1..Len(reqs) : InsertAttendee(i)

PairSpec == Init /\ [][PairNext]_vars

\* two events, registrations for either of them, one request at a time
TwoCapacities == {1, 2}
TwoBodies == {AttendeeCreate("n1", "a@x.com"), AttendeeCreate("n2", "b@x.com")}

TwoNext ==
    \/ \E cap \in TwoCapacities :
            Quiet /\ CreateEventUpTo(MaxEvents + 1, PlainEvent(cap))
    \/ \E e \in EventIds, body \in TwoBodies :
            Quiet /\ StartRegister(MaxReqs, e, body)
    \/ \E i \in 1..Len(reqs) : CheckCapacity(i)
    \/ \E i \in 1..Len(reqs) : CheckDuplicate(i)
    \/ \E i \in 1..Len(reqs) : InsertAttendee(i)

TwoSpec == Init /\ [][TwoNext]_vars

\* registrations overlap with a listing of the attendees
LiveCapacities == {3}
LiveBodies == {AttendeeCreate("n1", "a@x.com"), AttendeeCreate("n1", "b@x.com")}
LivePages == {1, 2}
LiveSizes == {1, 2}

LiveNext ==
    \/ \E cap \in LiveCapacities : CreateEvent(PlainEvent(cap))
    \/ \E e \in EventIds, body \in LiveBodies :
            StartRegister(MaxRacers, e, body)
    \/ \E i \in 1..Len(reqs) : CheckCapacity(i)
    \/ \E i \in 1..Len(reqs) : CheckDuplicate(i)
    \/ \E i \in 1..Len(reqs) : InsertAttendee(i)
    \/ \E e \in EventIds, p \in LivePages, z \in LiveSizes : StartList(e, p, z)
    \/ ListCount
    \/ ListPage
    \/ EndList

LiveSpec == Init /\ [][LiveNext]_vars

---------------------------------------------------------------------------
(* Vocabulary of the properties *)

ExistingEventIds == {events[k].id : k \in 1..Len(events)}

\* the completed register_attendee calls made for event e while it existed,
\* by position in arrival order
CallsOf(e) ==
    {i \in 1..Len(reqs) :
        reqs[i].pc = "done" /\ reqs[i].event_id = e /\ reqs[i].event # NoneRow}

\* i is the k-th call made for event e
RankOf(e, i) == Cardinality({j \in CallsOf(e) : j <= i})

\* the calls for e up to call i carry pairwise distinct emails
DistinctEmailsUpTo(e, i) ==
    \A a, b \in CallsOf(e) : (a < b /\ b <= i) => reqs[a].email # reqs[b].email

\* call i was answered 201 with the row it asked for, and the row is stored
Succeeded(i) ==
    /\ reqs[i].result.status = 201
    /\ reqs[i].result.detail = ""
    /\ reqs[i].result.id \in 1..Len(attendees)
    /\ attendees[reqs[i].result.id] =
            [id |-> reqs[i].result.id, name |-> reqs[i].name,
             email |-> reqs[i].email, event_id |-> reqs[i].event_id]

\* the number of calls for e that succeeded before call j arrived
SucceededBefore(e, j) == Cardinality({i \in CallsOf(e) : i < j /\ Succeeded(i)})

\* the number of Attendee rows of event e
RowCount(e) ==
    Cardinality({k \in 1..Len(attendees) : attendees[k].event_id = e})

---------------------------------------------------------------------------
(* C1: one request at a time, for an event of max_capacity N >= 1 that     *)
(* starts without attendees, as long as the calls carry pairwise distinct  *)
(* emails the first N register_attendee calls succeed and call N+1 fails   *)
(* with CapacityExceeded (400 "Event is at full capacity").                *)
C1_FirstNSucceedThenFull ==
    \A e \in 1..Len(events) :
        LET N == events[e].max_capacity
        IN  N >= 1 =>
            \A i \in CallsOf(e) :
                DistinctEmailsUpTo(e, i) =>
                    /\ RankOf(e, i) <= N => Succeeded(i)
                    /\ RankOf(e, i) = N + 1 =>
                          /\ reqs[i].result.status = 400
                          /\ reqs[i].result.detail = "Event is at full capacity"

\* an event of capacity 2 whose third call, all emails distinct, was refused
C1_Witness ==
    \E e \in 1..Len(events) :
        /\ events[e].max_capacity = 2
        /\ \E i \in CallsOf(e) :
              /\ RankOf(e, i) = 3
              /\ DistinctEmailsUpTo(e, i)
              /\ reqs[i].result = CapacityExceeded

---------------------------------------------------------------------------
\* i and j are the first and the second call made with the same email for
\* the same existing event, one after the other
SamePairTwice(e, i, j) ==
    /\ i \in CallsOf(e) /\ j \in CallsOf(e) /\ i < j
    /\ reqs[i].email = reqs[j].email
    /\ \A k \in CallsOf(e) : (k < j /\ k # i) => reqs[k].email # reqs[i].email

(* C2 as stated: registering the same (event_id, email) twice in sequence, *)
(* for any existing event, the first call succeeds and the second fails    *)
(* with DuplicateRegistration.                                             *)
C2_Original ==
    \A e \in 1..Len(events) : \A i, j \in CallsOf(e) :
        SamePairTwice(e, i, j) =>
            /\ Succeeded(i)
            /\ reqs[j].result.status = 400
            /\ reqs[j].result.detail =
                  "Attendee with this email already registered for this event"

(* C2 amended: one request at a time, when the same (event_id, email) is   *)
(* registered twice, the first call succeeds if the event is below its     *)
(* capacity when it arrives; after a successful first call the second      *)
(* fails, whatever its name: with DuplicateRegistration if the event is    *)
(* still below capacity, with CapacityExceeded if it is full.              *)
C2_DuplicateUnlessFull ==
    \A e \in 1..Len(events) : \A i, j \in CallsOf(e) :
        SamePairTwice(e, i, j) =>
            LET N == events[e].max_capacity
            IN  /\ SucceededBefore(e, i) < N => Succeeded(i)
                /\ (Succeeded(i) /\ SucceededBefore(e, j) < N) =>
                      /\ reqs[j].result.status = 400
                      /\ reqs[j].result.detail =
                            "Attendee with this email already registered for this event"
                /\ (Succeeded(i) /\ SucceededBefore(e, j) >= N) =>
                      /\ reqs[j].result.status = 400
                      /\ reqs[j].result.detail = "Event is at full capacity"

\* the second call, under another name, was refused as a duplicate
C2_Witness ==
    \E e \in 1..Len(events) : \E i, j \in CallsOf(e) :
        /\ SamePairTwice(e, i, j)
        /\ Succeeded(i)
        /\ reqs[j].name # reqs[i].name
        /\ reqs[j].result = DuplicateRegistration

---------------------------------------------------------------------------
(* C3: in every reachable state every event has at most max_capacity       *)
(* Attendee rows.                                                          *)
C3_NoOverbooking ==
    \A e \in 1..Len(events) : RowCount(e) <= events[e].max_capacity

---------------------------------------------------------------------------
(* C4: in every reachable state, under every interleaving of               *)
(* register_attendee requests, no two Attendee rows have the same          *)
(* (event_id, email).                                                      *)
C4_UniqueEmailPerEvent ==
    \A a, b \in 1..Len(attendees) :
        (attendees[a].event_id = attendees[b].event_id
            /\ attendees[a].email = attendees[b].email) => a = b

\* two requests for the same pair both passed the duplicate check; one has
\* inserted and the insert of the other was rejected by the store
C4_Witness ==
    \E i, j \in 1..Len(reqs) :
        /\ i # j
        /\ reqs[i].event_id = reqs[j].event_id /\ reqs[i].email = reqs[j].email
        /\ Succeeded(i)
        /\ reqs[j].pc = "done" /\ reqs[j].result = UnhandledIntegrityError

---------------------------------------------------------------------------
(* C5: a register_attendee request never ends with a raw storage fault: a  *)
(* request whose insert the store rejects ends with the client error       *)
(* DuplicateRegistration (400).                                            *)
C5_NoRawStorageFault ==
    \A i \in 1..Len(reqs) :
        reqs[i].pc = "done" =>
            reqs[i].result.status \in {201, 400, 404}

---------------------------------------------------------------------------
(* C6: an operation naming an event id that is not in the store fails with *)
(* 404 "Event not found" and with nothing else: register_attendee for      *)
(* every name and email, list_attendees for every page and size.           *)
C6_MissingEventNotFound ==
    /\ \A i \in 1..Len(reqs) :
          reqs[i].event_id \notin ExistingEventIds =>
              /\ reqs[i].pc = "done"
              /\ reqs[i].result.status = 404
              /\ reqs[i].result.detail = "Event not found"
    /\ (lst.pc # "idle" /\ lst.event_id \notin ExistingEventIds) =>
              /\ lst.pc = "done"
              /\ lst.resp.status = 404
              /\ lst.resp.detail = "Event not found"
              /\ lst.resp.items = <<>>

\* a registration and a listing with out-of-range paging, both for an id
\* the store does not hold, both answered
C6_Witness ==
    /\ events # <<>>
    /\ \E i \in 1..Len(reqs) :
          reqs[i].event_id \notin ExistingEventIds /\ reqs[i].pc = "done"
    /\ lst.pc = "done" /\ lst.event_id \notin ExistingEventIds
    /\ lst.in_page < 1 /\ lst.in_size < 1

---------------------------------------------------------------------------
\* the rows of a set, by id ascending
RECURSIVE SortedById(_)
SortedById(S) ==
    IF S = {} THEN <<>>
    ELSE LET m == CHOOSE r \in S : \A q \in S : r.id <= q.id
         IN  <<m>> \o SortedById(S \ {m})

\* the Attendee rows of event e, by id ascending
RowsById(e) ==
    SortedById({attendees[k] : k \in {n \in 1..Len(attendees) :
                                        attendees[n].event_id = e}})

\* the Attendee rows of event e, in the order they were registered
RowsByRegistration(e) ==
    LET idx == {n \in 1..Len(attendees) : attendees[n].event_id = e}
        nth(k) == CHOOSE n \in idx : Cardinality({m \in idx : m <= n}) = k
    IN  [k \in 1..Cardinality(idx) |-> attendees[nth(k)]]

\* positions lo..hi of a sequence (empty when hi < lo)
Positions(rows, lo, hi) ==
    [k \in 1..(IF hi >= lo THEN hi - lo + 1 ELSE 0) |-> rows[lo + k - 1]]

RECURSIVE ConcatPages(_, _, _)
ConcatPages(e, n, size) ==
    IF n = 0 THEN <<>>
    ELSE ConcatPages(e, n - 1, size) \o PageItems(e, n, size)

\* a listing that has just been answered 200
Listed == lst.pc = "done" /\ lst.resp.status = 200

(* C7: for an existing event with T attendees, page p of size S holds the  *)
(* attendees at positions (p-1)*S+1 .. min(p*S, T) of the event's          *)
(* attendees by id ascending, which is their registration order; pages     *)
(* 1..pages concatenated are exactly the T attendees, and a page beyond    *)
(* `pages` is empty and no error.                                          *)
C7_PageIsSliceById ==
    Listed =>
        LET e == lst.event_id
            rows == RowsById(e)
            T == Len(rows)
            p == lst.resp.page
            S == lst.resp.size
            hi == IF p * S < T THEN p * S ELSE T
        IN  /\ p >= 1 /\ S >= 1
            /\ rows = RowsByRegistration(e)
            /\ lst.resp.items = Positions(rows, (p - 1) * S + 1, hi)
            /\ ConcatPages(e, lst.resp.pages, S) = rows
            /\ \A q \in (lst.resp.pages + 1)..(lst.resp.pages + 2) :
                  PageItems(e, q, S) = <<>>
            /\ p > lst.resp.pages => lst.resp.items = <<>>

\* two attendees, size 1: page 2 is the second attendee alone
C7_Witness ==
    /\ Listed
    /\ Len(RowsById(lst.event_id)) = 2
    /\ lst.resp.page = 2 /\ lst.resp.size = 1
    /\ lst.resp.items = <<RowsById(lst.event_id)[2]>>

---------------------------------------------------------------------------
\* the least n with n * s >= t
Ceil(t, s) == CHOOSE n \in 0..t : n * s >= t /\ (n = 0 \/ (n - 1) * s < t)

(* C8: for an existing event, one request at a time, list_attendees        *)
(* returns total = the number of attendees registered for the event and    *)
(* pages = ceil(total / size) for the effective size (the requested size,  *)
(* or 10 when that is below 1); pages = 0 exactly when total = 0.          *)
C8_TotalAndPages ==
    Listed =>
        /\ lst.resp.total = RowCount(lst.event_id)
        /\ lst.resp.size = (IF lst.in_size < 1 THEN 10 ELSE lst.in_size)
        /\ lst.resp.pages = Ceil(lst.resp.total, lst.resp.size)
        /\ lst.resp.pages = 0 <=> lst.resp.total = 0

\* one attendee listed with size 2: one page, rounded up
C8_Witness ==
    /\ Listed
    /\ lst.resp.total = 1 /\ lst.resp.size = 2 /\ lst.resp.pages = 1

---------------------------------------------------------------------------
\* the instant a timestamp of a request body denotes: a timestamp without
\* offset is read as Asia/Kolkata time
InputInstant(dt) == dt.wall - (IF dt.aware THEN dt.off ELSE IST_OFFSET)

\* the body's end_time is not strictly after its start_time
WindowNotPositive(data) ==
    InputInstant(data.end_time) <= InputInstant(data.start_time)

(* C9: a POST /events whose end_time is not strictly after its start_time, *)
(* as instants, is answered 422 and stores nothing; every Event row has    *)
(* end_time > start_time.                                                  *)
C9_EndAfterStart ==
    [][/\ WindowNotPositive(cresp'.data) =>
              (cresp'.result.status = 422 /\ events' = events)
       /\ \A k \in 1..Len(events') :
              events'[k].end_time.wall - events'[k].end_time.off
                  > events'[k].start_time.wall - events'[k].start_time.off]_vars

\* refused although the wall clock reading of end_time is the later one
C9_Witness ==
    /\ cresp.result.status = 422
    /\ cresp.data.end_time.wall > cresp.data.start_time.wall
    /\ cresp.data.end_time.aware /\ cresp.data.start_time.aware

---------------------------------------------------------------------------
(* C10: a POST /events with max_capacity <= 0 is answered 422 and stores   *)
(* nothing; every Event row has max_capacity >= 1.                         *)
C10_PositiveCapacity ==
    /\ cresp.result.status # 0 =>
          (cresp.data.max_capacity <= 0 => cresp.result.status = 422)
    /\ \A k \in 1..Len(events) : events[k].max_capacity >= 1

---------------------------------------------------------------------------
\* the paging values a request for (page, size) stands for
NormalPage(page) == IF page < 1 THEN 1 ELSE page
NormalSize(size) == IF size < 1 THEN 10 ELSE size

ListedIds == [k \in 1..Len(eresp.items) |-> eresp.items[k].id]

\* the Event rows whose end_time is strictly after the clock
UpcomingIds == {k \in 1..Len(events) : Instant(events[k].end_time) > now}

StartOf(k) == Instant(events[k].start_time)

(* C12: a successful GET /events with (skip, limit) answered at clock value *)
(* now carries exactly the positions skip+1 .. skip+limit of the events     *)
(* whose end_time is strictly greater than now, in ascending start_time; an *)
(* event with end_time <= now is in no response, the clock never goes back  *)
(* and rows never change, so an event that dropped out stays out.           *)
C12_ListingIsSlice ==
    (eresp.pc = "done" /\ eresp.status = 200) =>
        LET ids == ListedIds
            shown == {ids[k] : k \in 1..Len(ids)}
            rest == UpcomingIds \ shown
            n == Cardinality(UpcomingIds)
            skipped == IF eresp.skip < n THEN eresp.skip ELSE n
            left == n - skipped
        IN  /\ shown \subseteq UpcomingIds
            /\ Cardinality(shown) = Len(ids)
            /\ Len(ids) = (IF eresp.limit < left THEN eresp.limit ELSE left)
            /\ \A a, b \in 1..Len(ids) : a < b => StartOf(ids[a]) <= StartOf(ids[b])
            /\ \E before \in SUBSET rest :
                    /\ Cardinality(before) = skipped
                    /\ \A x \in before, y \in shown : StartOf(x) <= StartOf(y)
                    /\ \A x \in before \cup shown, y \in rest \ before :
                            StartOf(x) <= StartOf(y)
            /\ \A k \in 1..Len(ids) :
                    eresp.items[k].max_capacity = events[ids[k]].max_capacity

C12_UpcomingOnly ==
    [][/\ C12_ListingIsSlice'
       /\ now' >= now
       /\ \A k \in 1..Len(events) :
            Instant(events[k].end_time) <= now =>
                /\ k \in 1..Len(events') /\ events'[k] = events[k]
                /\ eresp'.pc = "done" =>
                        \A j \in 1..Len(eresp'.items) : eresp'.items[j].id # k]_vars

\* three events, one of them over: the listing skips the earlier upcoming
\* event and returns the later one
C12_Witness ==
    /\ eresp.pc = "done" /\ eresp.status = 200
    /\ Len(events) = 3
    /\ Cardinality(UpcomingIds) = 2
    /\ eresp.skip = 1 /\ eresp.limit = 1
    /\ Len(eresp.items) = 1
    /\ \E k \in UpcomingIds : StartOf(k) < StartOf(eresp.items[1].id)

(* C13: timezone handling preserves the instant: an accepted POST /events   *)
(* stores its timestamps as the same instants at offset UTC, every time a   *)
(* GET /events response carries denotes the same instant as the stored one, *)
(* and a stored time converted to a zone and back to UTC is itself.         *)
C13_InstantPreserved ==
    /\ cresp.result.status = 201 =>
            LET row == events[cresp.result.id]
            IN  /\ row.start_time.aware /\ row.start_time.off = UTC_OFFSET
                /\ row.end_time.aware /\ row.end_time.off = UTC_OFFSET
                /\ Instant(row.start_time) = InputInstant(cresp.data.start_time)
                /\ Instant(row.end_time) = InputInstant(cresp.data.end_time)
    /\ (eresp.pc = "done" /\ eresp.status = 200) =>
            \A k \in 1..Len(eresp.items) :
                LET row == events[eresp.items[k].id]
                IN  /\ eresp.items[k].start_time.aware
                    /\ eresp.items[k].end_time.aware
                    /\ Instant(eresp.items[k].start_time) = Instant(row.start_time)
                    /\ Instant(eresp.items[k].end_time) = Instant(row.end_time)
    /\ \A k \in 1..Len(events), z \in Offsets :
            /\ AsTimezone(AsTimezone(events[k].start_time, z), UTC_OFFSET)
                    = events[k].start_time
            /\ AsTimezone(AsTimezone(events[k].end_time, z), UTC_OFFSET)
                    = events[k].end_time

(* C14: a GET /events whose X-Timezone header is not a zone name is         *)
(* answered 400 "Invalid X-Timezone header value." with no events, whatever *)
(* the tables hold; a GET /events without the header is answered 200 with   *)
(* every time at offset UTC.                                                *)
C14_UnknownZoneRejected ==
    eresp.pc = "done" =>
        /\ eresp.header = <<"Invalid/Timezone">> =>
                /\ eresp.status = 400
                /\ eresp.detail = "Invalid X-Timezone header value."
                /\ eresp.items = <<>>
        /\ eresp.header = <<>> =>
                /\ eresp.status = 200
                /\ \A k \in 1..Len(eresp.items) :
                        /\ eresp.items[k].start_time.off = UTC_OFFSET
                        /\ eresp.items[k].end_time.off = UTC_OFFSET

\* an unknown zone name is refused while an upcoming event is stored
C14_Witness ==
    /\ eresp.pc = "done"
    /\ eresp.header = <<"Invalid/Timezone">>
    /\ eresp.status = 400
    /\ eresp.limit > 0 /\ eresp.skip = 0
    /\ UpcomingIds # {}

(* C15: with at most k register_attendee requests overlapping at any time, *)
(* an event never has more than max_capacity + k - 1 Attendee rows; the     *)
(* bound is met (C15_Witness): k requests with distinct emails all pass the *)
(* capacity check before any of them inserts, and all insert.               *)
C15_OvershootBounded ==
    \A e \in 1..Len(events) :
        RowCount(e) <= events[e].max_capacity + MaxRacers - 1

\* every racer read a count below max_capacity and every racer inserted:
\* the event holds max_capacity + k - 1 > max_capacity rows
C15_Witness ==
    \E e \in 1..Len(events) :
        /\ RowCount(e) > events[e].max_capacity
        /\ RowCount(e) = events[e].max_capacity + MaxRacers - 1
        /\ \A i \in CallsOf(e) : Succeeded(i)
        /\ \A i, j \in CallsOf(e) : i # j => reqs[i].email # reqs[j].email

\* the outcome the three checks give against the current tables, taken in
\* the order event, capacity, duplicate
ExpectedError(event_id, email) ==
    IF event_id \notin ExistingEventIds THEN NotFound
    ELSE IF RowCount(event_id) >= events[event_id].max_capacity
         THEN CapacityExceeded
    ELSE IF \E k \in 1..Len(attendees) :
                attendees[k].event_id = event_id /\ attendees[k].email = email
         THEN DuplicateRegistration
    ELSE Pending

\* the register_attendee calls that return in this step
Returning ==
    {i \in 1..Len(reqs') :
        reqs'[i].pc = "done" /\ (i > Len(reqs) \/ reqs[i].pc # "done")}

(* C16: one request at a time, a register_attendee call returns the error  *)
(* of the first check that fails in the order event exists, count below    *)
(* max_capacity, email not yet registered for the event (a call that fails  *)
(* both the capacity and the duplicate check returns CapacityExceeded), and *)
(* a row is inserted only when all three checks pass.                       *)
C16_FirstFailingCheck ==
    [][/\ \A i \in Returning :
            LET expected == ExpectedError(reqs'[i].event_id, reqs'[i].email)
            IN  IF expected = Pending
                THEN /\ reqs'[i].result.status = 201
                     /\ Len(attendees') = Len(attendees) + 1
                ELSE /\ reqs'[i].result = expected
                     /\ attendees' = attendees
       /\ attendees' # attendees =>
            \E i \in Returning :
                ExpectedError(reqs'[i].event_id, reqs'[i].email) = Pending]_vars

\* a call for an email already registered for a full event was answered
\* CapacityExceeded
C16_Witness ==
    \E i, j \in 1..Len(reqs) :
        /\ i < j
        /\ reqs[i].event_id = reqs[j].event_id /\ reqs[i].email = reqs[j].email
        /\ Succeeded(i)
        /\ reqs[j].pc = "done" /\ reqs[j].result = CapacityExceeded

\* the errors register_attendee raises itself
RegisterErrors == {NotFound, CapacityExceeded, DuplicateRegistration}

\* every Attendee row was written by a call that was answered 201 with it
RowsAreSuccesses ==
    \A k \in 1..Len(attendees) :
        \E i \in 1..Len(reqs) : Succeeded(i) /\ reqs[i].result.id = k

(* C17: the step in which a register_attendee call returns NotFound,        *)
(* CapacityExceeded or DuplicateRegistration changes neither table, and no  *)
(* row of the Attendees table comes from a call that failed: failed calls   *)
(* take no capacity and leave their email free.                             *)
C17_ErrorsWriteNothing ==
    [][/\ \A i \in Returning :
            reqs'[i].result \in RegisterErrors =>
                (attendees' = attendees /\ events' = events)
       /\ RowsAreSuccesses']_vars

\* a call failed, and a later call with the same email succeeded; another
\* call found the event full
C17_Witness ==
    /\ \E i, j \in 1..Len(reqs) :
            /\ i < j
            /\ reqs[i].email = reqs[j].email
            /\ reqs[i].pc = "done" /\ reqs[i].result \in RegisterErrors
            /\ Succeeded(j)
    /\ \E l \in 1..Len(reqs) : reqs[l].result = CapacityExceeded

\* no two rows of a table share an id
IdsUnique ==
    /\ \A a, b \in 1..Len(events) : events[a].id = events[b].id => a = b
    /\ \A a, b \in 1..Len(attendees) :
            attendees[a].id = attendees[b].id => a = b

(* C18: every step keeps every Event row and every Attendee row as it is,  *)
(* so no event's attendee count decreases; a step adds at most one row to a *)
(* table, the step of a 201 answer adds exactly one, and a new row's id     *)
(* differs from the id of every other row.                                  *)
C18_AppendOnly ==
    [][/\ Len(events') >= Len(events) /\ Len(events') <= Len(events) + 1
       /\ \A k \in 1..Len(events) : events'[k] = events[k]
       /\ Len(attendees') >= Len(attendees)
       /\ Len(attendees') <= Len(attendees) + 1
       /\ \A k \in 1..Len(attendees) : attendees'[k] = attendees[k]
       /\ \A e \in EventIds : RowCount(e)' >= RowCount(e)
       /\ (cresp' # cresp /\ cresp'.result.status = 201) =>
                Len(events') = Len(events) + 1
       /\ \A i \in Returning :
            reqs'[i].result.status = 201 => Len(attendees') = Len(attendees) + 1
       /\ IdsUnique']_vars

\* two events and two attendees, one per event, all with their own ids
C18_Witness ==
    /\ Len(events) = 2 /\ Len(attendees) = 2
    /\ attendees[1].event_id # attendees[2].event_id
    /\ \A i \in 1..Len(reqs) : Succeeded(i)

\* the Attendee rows of event e, in table order
RowsOf(e) == LET P(r) == r.event_id = e IN SelectSeq(attendees, P)

(* C19: one request at a time, a register_attendee call is answered 201 if *)
(* and only if its event exists, that event has fewer Attendee rows than    *)
(* its max_capacity and none of them has the call's email; a 201 call adds  *)
(* exactly the row (event_id, name, email), and no call changes the         *)
(* attendees of another event. Rows of other events neither count against   *)
(* the capacity nor make an email a duplicate.                              *)
C19_SucceedsIffAllowed ==
    [][\A i \in Returning :
        LET e == reqs'[i].event_id
            allowed ==
                /\ e \in ExistingEventIds
                /\ RowCount(e) < events[e].max_capacity
                /\ \A k \in 1..Len(attendees) :
                        attendees[k].event_id = e =>
                            attendees[k].email # reqs'[i].email
        IN  /\ reqs'[i].result.status = 201 <=> allowed
            /\ IF allowed
               THEN /\ attendees' = Append(attendees,
                            [id |-> Len(attendees) + 1, name |-> reqs'[i].name,
                             email |-> reqs'[i].email, event_id |-> e])
                    /\ reqs'[i].result.id = Len(attendees) + 1
               ELSE attendees' = attendees
            /\ \A o \in EventIds \ {e} : RowsOf(o)' = RowsOf(o)]_vars

\* the same email is registered for two events, each of which holds as
\* many rows as its max_capacity allows
C19_Witness ==
    \E i, j \in 1..Len(reqs) :
        /\ i < j
        /\ Succeeded(i) /\ Succeeded(j)
        /\ reqs[i].email = reqs[j].email
        /\ reqs[i].event_id # reqs[j].event_id
        /\ RowCount(reqs[j].event_id) = events[reqs[j].event_id].max_capacity
        /\ RowCount(reqs[i].event_id) = events[reqs[i].event_id].max_capacity

Min(a, b) == IF a < b THEN a ELSE b
Max(a, b) == IF a > b THEN a ELSE b

(* C20: every 200 response of list_attendees agrees with itself, also when *)
(* registrations commit between its two reads: it carries                   *)
(* min(size, max(0, total - (page - 1) * size)) items and                   *)
(* pages = ceil(total / size).                                              *)
C20_ResponseConsistent ==
    (lst.pc = "done" /\ lst.resp.status = 200) =>
        /\ Len(lst.resp.items) =
                Min(lst.resp.size,
                    Max(0, lst.resp.total - (lst.resp.page - 1) * lst.resp.size))
        /\ lst.resp.pages = Ceil(lst.resp.total, lst.resp.size)

====
